---- MODULE Spec2Model ----
(***************************************************************************)
(* A model of ManifoldDiff/DDPM_Diff.py: the DDPM_Diff diffusion object    *)
(* (constructor and schedules), forward_process, compute_loss, the reverse *)
(* sampler `sample` and the timestep draw of `train`.                      *)
(*                                                                         *)
(* Numbers.  Real-valued tensors are fixed-point integers in units of      *)
(* 1/One (One = 10^6); every batch/sequence element is treated alike, so a *)
(* tensor is represented by one element.  A float that is inf or nan is    *)
(* the value NaN.  Rotations are restricted to one fixed axis, so that a   *)
(* rotation matrix is its angle in (-pi, pi], a tangent vector is a signed *)
(* angle, and the matrix product is the sum of the angles.                 *)
(***************************************************************************)
EXTENDS Integers, Sequences, FiniteSets, TLC

\* ---------------------------------------------------------------- bounds
\* Largest total step count given to the constructor or to sample/train.
MaxT == 3
\* The constructor is also tried with timesteps = 0, -1, ..., -MaxNeg.
MaxNeg == 2
\* Number of states of the ambient random generator.
RngPeriod == 3

\* ------------------------------------------------------------- fixed point
\* The unit of the fixed-point representation: the integer n stands for n/One.
One == 1000 * 1000
Half == One \div 2
\* The value standing for a float that is inf or nan.
NaN == 0 - 2001 * One
IsNaN(a) == a = NaN

Abs(a) == IF a < 0 THEN 0 - a ELSE a
\* The smallest unit instead of 0, for a result that is nonzero as a float.
NonZero(m) == IF m = 0 THEN 1 ELSE m
Sgn(a) == IF a < 0 THEN 0 - 1 ELSE 1

\* floor(a*b/One) for a, b >= 0, without leaving 32 bits.
MulNat(a, b) ==
    LET ah == a \div 1000
        al == a % 1000
        bh == b \div 1000
        bl == b % 1000
        m  == ah * bl + al * bh
    IN  ah * bh + m \div 1000 + ((m % 1000) * 1000 + al * bl) \div One

\* floor(a*One/b) for a >= 0, b > 0: the integer part, then six decimal
\* digits by long division.
DivNat(a, b) ==
    LET r0 == a % b
        r1 == (r0 * 10) % b
        r2 == (r1 * 10) % b
        r3 == (r2 * 10) % b
        r4 == (r3 * 10) % b
        r5 == (r4 * 10) % b
    IN  (a \div b) * One
        + ((r0 * 10) \div b) * 100000 + ((r1 * 10) \div b) * 10000
        + ((r2 * 10) \div b) * 1000 + ((r3 * 10) \div b) * 100
        + ((r4 * 10) \div b) * 10 + (r5 * 10) \div b

\* The largest magnitude a finite value may have; beyond it a float result is
\* treated as inf.
Huge == 2000 * One

\* Float multiplication: nan propagates, and the product of two nonzero
\* floats is nonzero (the model's unit must not underflow where a float would
\* not).
Mul(a, b) ==
    IF IsNaN(a) \/ IsNaN(b) THEN NaN
    ELSE IF a = 0 \/ b = 0 THEN 0
    ELSE Sgn(a) * Sgn(b) * NonZero(MulNat(Abs(a), Abs(b)))

\* Float division: a zero divisor gives inf or nan, never an exception; a
\* nonzero dividend gives a nonzero quotient.
Div(a, b) ==
    IF IsNaN(a) \/ IsNaN(b) \/ b = 0 THEN NaN
    ELSE IF a = 0 THEN 0
    ELSE IF Abs(a) \div Abs(b) >= Huge \div One THEN NaN
    ELSE Sgn(a) * Sgn(b) * NonZero(DivNat(Abs(a), Abs(b)))

Add(a, b) == IF IsNaN(a) \/ IsNaN(b) THEN NaN ELSE a + b
Sub(a, b) == IF IsNaN(a) \/ IsNaN(b) THEN NaN ELSE a - b

\* r*r <= a*One, compared in two words.
SqLeq(r, a) ==
    LET rh == r \div 1000
        rl == r % 1000
        u  == 2 * rh * rl
        w  == (u % 1000) * 1000 + rl * rl
        H  == rh * rh + u \div 1000 + w \div One
        L  == w % One
    IN  H < a \/ (H = a /\ L = 0)

\* base with the bit w set if the square still is at most a*One.
SqrtBit(a, base, w) ==
    IF base + w <= 46000 * 1000 /\ SqLeq(base + w, a) THEN base + w ELSE base

\* floor(sqrt(a*One)) for 0 <= a, bit by bit from 2^25 down.
SqrtNat(a) ==
    SqrtBit(a, SqrtBit(a, SqrtBit(a, SqrtBit(a, SqrtBit(a, SqrtBit(a,
        SqrtBit(a, SqrtBit(a, SqrtBit(a, SqrtBit(a, SqrtBit(a, SqrtBit(a,
        SqrtBit(a, SqrtBit(a, SqrtBit(a, SqrtBit(a, SqrtBit(a, SqrtBit(a,
        SqrtBit(a, SqrtBit(a, SqrtBit(a, SqrtBit(a, SqrtBit(a, SqrtBit(a,
        SqrtBit(a, SqrtBit(a,
        0, 33554432), 16777216), 8388608), 4194304), 2097152), 1048576),
        524288), 262144), 131072), 65536), 32768), 16384), 8192), 4096),
        2048), 1024), 512), 256), 128), 64), 32), 16), 8), 4), 2), 1)

\* torch.sqrt: nan for a negative argument.
Sqrt(a) == IF IsNaN(a) \/ a < 0 THEN NaN ELSE SqrtNat(a)

\* torch.square, x ** 2
Square(x) == Mul(x, x)

\* torch.clamp / torch.clip (nan stays nan).
Clamp(x, lo, hi) ==
    IF IsNaN(x) THEN NaN ELSE IF x < lo THEN lo ELSE IF x > hi THEN hi ELSE x

\* torch.pi * 0.5 and torch.pi in units of 1/One.
HalfPi == 1570796
Pi == 2 * HalfPi

\* torch.cos on [0, pi/2] (a little beyond is harmless): the Taylor series
\* through x^12, in Horner form.  No float is exactly pi/2, so the cosine of
\* a float is never exactly 0: the smallest unit stands for such a value.
Cos(x) ==
    IF IsNaN(x) THEN NaN ELSE
    LET x2 == MulNat(x, x)
        h6 == One - MulNat(x2, One) \div 132
        h5 == One - MulNat(x2, h6) \div 90
        h4 == One - MulNat(x2, h5) \div 56
        h3 == One - MulNat(x2, h4) \div 30
        h2 == One - MulNat(x2, h3) \div 12
    IN  NonZero(One - MulNat(x2, h2) \div 2)

\* ------------------------------------------------------------ tensors
\* A 1-D tensor is a sequence; Python's a[t] (t from 0) is At(a, t).
At(a, t) == a[t + 1]

\* a[1:]
Tail1(a) == [i \in 1..(Len(a) - 1) |-> a[i + 1]]

\* torch.linspace(start, end, n) for n >= 0: the first half counts up from
\* start, the second half counts down from end, so the last element is end.
Linspace(start, end, n) ==
    [i \in 1..n |->
        IF n = 1 THEN start
        ELSE LET step == Sgn(end - start) * (Abs(end - start) \div (n - 1))
             IN  IF 2 * (i - 1) < n THEN start + (i - 1) * step
                 ELSE end - (n - i) * step]

\* torch.cumprod(a, dim=0)
Cumprod(a) ==
    LET cp[i \in 1..Len(a)] == IF i = 1 THEN a[1] ELSE Mul(cp[i - 1], a[i])
    IN  [i \in 1..Len(a) |-> cp[i]]

\* ---------------------------------------------------------- schedules
\* s = 0.008 of cosine_schedule and of f.
CosS == 8000
\* The lower clip of cosine_schedule, 0.001.
ClipMin == 1000

\* alphas_cumprod of cosine_schedule before it is normalised (line 42).
CosineCumprod(timesteps) ==
    LET steps == timesteps + 1
        x == Linspace(0, steps * One, steps)
    IN  [i \in 1..steps |->
            Square(Cos(Mul(Div(Add(Div(x[i], steps * One), CosS), One + CosS),
                           HalfPi)))]

\* cosine_schedule(timesteps) raises: linspace refuses a negative number of
\* steps, and alphas_cumprod[0] of an empty tensor is an IndexError.
CosineScheduleRaises(timesteps) == timesteps + 1 <= 0

\* Lines 43-45 of cosine_schedule, from the alphas_cumprod of line 42.
CosineAlphas(timesteps, raw) ==
    [i \in 1..timesteps |->
        Clamp(Div(Div(raw[i + 1], raw[1]), Div(raw[i], raw[1])), ClipMin, One)]

\* cosine_schedule(timesteps), for timesteps + 1 >= 1.
cosine_schedule(timesteps) == CosineAlphas(timesteps, CosineCumprod(timesteps))

\* f with a division that yields nan instead of raising, as tensor division
\* would: the variant of FRaises under which a zero step count is built.
FNeverRaises(num_timesteps) == FALSE

\* The inner f(t) of __init__ raises ZeroDivisionError in t/self.num_timesteps.
FRaises(num_timesteps) == num_timesteps = 0

\* f(t) of __init__, for num_timesteps # 0.
F(t, num_timesteps) ==
    Square(Cos(Mul(Div(Add(Div(t * One, num_timesteps * One), CosS),
                       One + CosS),
                   HalfPi)))

\* __init__ raises instead of returning an object.
CtorRaises(timesteps) == CosineScheduleRaises(timesteps) \/ FRaises(timesteps)

\* The schedule tensors __init__ leaves in the object, from self.a (a0) and
\* self.a_bars (a_bars0) as they are before their first entry is cut off
\* (lines 168-169), and from beta_t.
ScheduleOf(T, a0, a_bars0, beta_t) ==
    [ a |-> Tail1(a0),
      a_bars |-> Tail1(a_bars0),
      x0_param1 |-> [t \in 1..T |-> Div(One, Sqrt(At(a_bars0, t)))],
      x0_param2 |-> [t \in 1..T |-> Sqrt(One - At(a_bars0, t))],
      sigma |-> [t \in 1..T |->
          Sqrt(Div(Mul(One - At(a_bars0, t - 1), One - At(a0, t)),
                   One - At(a_bars0, t)))],
      mean_param1 |-> [t \in 1..T |->
          Div(Mul(Sqrt(At(a0, t)), One - At(a_bars0, t - 1)),
              One - At(a_bars0, t))],
      mean_param2 |-> [t \in 1..T |->
          Div(Mul(Sqrt(At(a_bars0, t - 1)), One - At(a0, t)),
              One - At(a_bars0, t))],
      q_param1 |-> [t \in 1..T |-> Sqrt(At(a_bars0, t))],
      q_param2 |-> [t \in 1..T |-> Sqrt(One - At(a_bars0, t))],
      beta_t |-> beta_t,
      alpha_t |-> [i \in 1..T |-> One - beta_t[i]],
      alpha_bar_t |-> Cumprod([i \in 1..T |-> One - beta_t[i]]) ]

\* self.a after line 159: self.a[0] = f(0)/f(T) is written in place, after
\* the cumprod was taken; the entry is cut off again in line 169.
WriteA0(a_in, timesteps) ==
    [a_in EXCEPT ![1] = Div(F(0, timesteps), F(timesteps, timesteps))]

\* __init__ for timesteps >= 1 (lines 155-177).
BuildSchedule(timesteps, beta_start, beta_end) ==
    ScheduleOf(timesteps,
               WriteA0(<<One>> \o cosine_schedule(timesteps), timesteps),
               Cumprod(<<One>> \o cosine_schedule(timesteps)),
               Linspace(beta_start, beta_end, timesteps))

\* ------------------------------------------------------------ rotations
\* acos(1 - 1e-7): the angle the clamp of cos_theta to [-1+1e-7, 1-1e-7]
\* (lines 87 and 134) leaves for cos_theta = 1.
AcosEps == 447

\* theta of lines 86-88 and 133-135 for a rotation by the angle r: acos is
\* decreasing, so clamping cos_theta and then taking acos clamps the angle.
ClampedAngle(r) ==
    IF IsNaN(r) THEN NaN ELSE Clamp(Abs(r), AcosEps, Pi - AcosEps)

\* so3_exp_map(v): the rotation by |v| about the axis, an angle in (-pi, pi].
so3_exp_map(v) ==
    IF IsNaN(v) THEN NaN
    ELSE LET w == ((v + Pi) % (2 * Pi)) - Pi
         IN  IF w = 0 - Pi THEN Pi ELSE w

\* so3_log_map(R): the vector part sin(r) of (R - R^T)/2 scaled by
\* theta/sin(theta) with the clamped theta.  Away from pi this is r; within
\* AcosEps of pi, sin(theta) stays at sin(AcosEps) while sin(r) goes to 0.
so3_log_map(R) ==
    IF IsNaN(R) THEN NaN
    ELSE IF Abs(R) > Pi - AcosEps
         THEN Sgn(R) * (((Pi - Abs(R)) * (Pi - AcosEps)) \div AcosEps)
         ELSE R

\* torch.matmul of two rotations about the axis.
MatMul(R1, R2) == IF IsNaN(R1) \/ IsNaN(R2) THEN NaN ELSE so3_exp_map(R1 + R2)

\* R^T
Transpose(R) == IF IsNaN(R) THEN NaN ELSE IF R = Pi THEN Pi ELSE 0 - R

\* lambda_map(gamma, X) of sample, and so3_interpolate.
lambda_map(gamma, X) == so3_exp_map(Mul(gamma, so3_log_map(X)))

\* (theta**2).mean() of rotation_distance_loss.
\* theta of rotation_distance_loss (lines 129-135).
rotation_distance_theta(R_pred, R_true) ==
    ClampedAngle(MatMul(Transpose(R_pred), R_true))

\* rotation_distance_loss(R_pred, R_true): (theta**2).mean()
rotation_distance_loss(R_pred, R_true) ==
    Square(rotation_distance_theta(R_pred, R_true))

\* --------------------------------------------------------------- shapes
\* The shape of a rotation batch: (B, L, 3, 3), and what reshape and
\* transpose(1, 2) make of it.
ShapeBL33 == <<"B", "L", "3", "3">>
ShapeBL9 == <<"B", "L", "9">>
Transpose12(sh) == [sh EXCEPT ![2] = sh[3], ![3] = sh[2]]

\* The shape in which sample hands x2_t to the score model (lines 282-288).
SampleScoreShape(name, x2_shape) ==
    IF name = "Unet" THEN Transpose12(ShapeBL9) ELSE x2_shape

\* The shape in which compute_loss hands x2_t to the score model (225-232).
LossScoreShape(name) ==
    IF name = "Unet" THEN Transpose12(ShapeBL9) ELSE ShapeBL9

\* A rotation argument with 9 components per sequence element.
Flattened(sh) == sh = ShapeBL9 \/ sh = Transpose12(ShapeBL9)

\* ------------------------------------------------- the ambient generator
RngStates == 0..(RngPeriod - 1)
NextRng(g) == (g + 1) % RngPeriod
\* The value torch.randn / randn_like gives in generator state g.
Randn(g) == (((2 * g) % 3) - 1) * Half

\* ------------------------------------------------------ the score model
\* self.score_model(x1_t, x2_t, t): a deterministic stub, <<predicted_score1,
\* predicted_score2>>.  "zero" predicts no noise; "echo" predicts half of
\* what it is given.
ScoreKinds == {"zero", "echo"}
ScoreModel(kind, x1_t, x2_t, t) ==
    IF kind = "zero" THEN <<0, 0>>
    ELSE <<Mul(x1_t, Half), Mul(x2_t, Half)>>

\* An optional argument: <<>> is None, <<v>> is the value v.
IsNone(o) == o = <<>>
Val(o) == o[1]

\* --------------------------------------------------------------- sample
\* The state of one call of sample.  pc: "idle" (no call), "loop" (in the for
\* loop, t the next index), "exit" (loop left), "done" (returned), "raised".
\* g is the state of the ambient generator this call draws from, g0 its state
\* when the call began, draws the number of draws of the call.  The other
\* fields record the last iteration: the timesteps the score model was asked
\* for so far, the shape of its rotation argument, its predictions p1 and p2,
\* x1_t and x2_t as the iteration found them (xt, Rt), the noise terms and
\* where they came from, the x0 estimate before and after the clamp, and
\* the divisors.
IdleRun(g) ==
    [ pc |-> "idle", t |-> 0, x1_t |-> 0, x2_t |-> 0, x2_shape |-> ShapeBL33,
      g |-> g, g0 |-> g, draws |-> 0, queried |-> <<>>, score_shape |-> <<>>,
      trans_src |-> "none", rot_src |-> "none", noise |-> 0, epsilon |-> 0,
      xt |-> 0, Rt |-> 0, p1 |-> 0, p2 |-> 0, x0_raw |-> 0, x0 |-> 0,
      divs |-> {},
      out_rot |-> 0, out_trans |-> 0 ]

\* Lines 267-275: x1_t and x2_t before the loop, drawn unless overridden.
SampleInit(a, g) ==
    LET g1 == IF IsNone(a.trans_init) THEN NextRng(g) ELSE g
        g2 == IF IsNone(a.rot_init) THEN NextRng(g1) ELSE g1
    IN  [ IdleRun(g2) EXCEPT
            !.pc = "loop",
            !.g0 = g,
            !.t = a.num_steps - 1,
            !.x1_t = IF IsNone(a.trans_init) THEN Randn(g) ELSE Val(a.trans_init),
            !.x2_t = IF IsNone(a.rot_init) THEN so3_exp_map(Randn(g1))
                     ELSE Val(a.rot_init),
            !.draws = (IF IsNone(a.trans_init) THEN 1 ELSE 0)
                      + (IF IsNone(a.rot_init) THEN 1 ELSE 0) ]

\* The noise branch of line 297 without its test of t: the variant of
\* TransNoiseSrc that also adds translation noise at the last step.
TransNoiseSrcEveryStep(a, t) ==
    IF ~IsNone(a.trans_noise) THEN "override" ELSE "fresh"

\* Lines 297-303: where the Euclidean noise of step t comes from.
TransNoiseSrc(a, t) ==
    IF t > 0 THEN (IF IsNone(a.trans_noise) THEN "fresh" ELSE "override")
    ELSE "zeros"

\* The branch of line 345 always taking the randn side: the variant of
\* RotNoiseSrc that ignores a supplied rot_noise.
RotNoiseSrcFresh(a, t) == IF t > 0 THEN "fresh" ELSE "skipped"

\* Lines 329, 347-350, 355-357: where the tangent noise of step t comes from.
RotNoiseSrc(a, t) ==
    IF t > 0 THEN (IF IsNone(a.rot_noise) THEN "fresh" ELSE "override")
    ELSE "skipped"

\* extract(a, t, shape): gather raises for an index outside the tensor.
ExtractRaises(a, t) == t < 0 \/ t >= Len(a)

\* Line 305 with the two coefficients exchanged: the variant of X0Estimate
\* that scales x1_t by x0_param2.
X0EstimateSwapped(s, x1_t, p1, t) ==
    Mul(At(s.x0_param2, t), Sub(x1_t, Mul(At(s.x0_param1, t), p1)))

\* Line 305: the x0 estimate before it is clamped.
X0Estimate(s, x1_t, p1, t) ==
    Mul(At(s.x0_param1, t), Sub(x1_t, Mul(At(s.x0_param2, t), p1)))

\* Lines 316-324: x_0_approx, the rotation estimate of step t.
X0Approx(s, x2_t, p2, t) ==
    LET v_t == so3_log_map(x2_t)
        alpha_bar_t_sqrt == Sqrt(At(s.alpha_bar_t, t))
        v_0_pred == Div(Sub(v_t, Mul(Sqrt(One - At(s.alpha_bar_t, t)), p2)),
                        alpha_bar_t_sqrt)
    IN  so3_exp_map(v_0_pred)

\* Lines 330-354: the posterior mean of the rotation and the noise added to
\* it, for t > 0.
PosteriorRot(s, x_0_approx, x2_t, t, epsilon) ==
    LET alpha_t_ == At(s.alpha_t, t)
        beta_t_ == At(s.beta_t, t)
        alpha_bar_t_minus == At(s.alpha_bar_t, t - 1)
        c1 == Div(Mul(Sqrt(alpha_bar_t_minus), beta_t_),
                  One - At(s.alpha_bar_t, t))
        c2 == Div(Sqrt(Mul(alpha_t_, One - alpha_bar_t_minus)),
                  One - At(s.alpha_bar_t, t))
        part1 == lambda_map(c1, x_0_approx)
        part2 == lambda_map(c2, x2_t)
        mu_t == MatMul(part1, part2)
        v_mu == so3_log_map(mu_t)
        v_t_minus == Add(v_mu, Mul(Sqrt(beta_t_), epsilon))
    IN  so3_exp_map(v_t_minus)

\* Lines 316-357: the rotation after step t, given the tangent noise epsilon.
RotStep(s, x2_t, p2, t, epsilon) ==
    IF t > 0
    THEN PosteriorRot(s, X0Approx(s, x2_t, p2, t), x2_t, t, epsilon)
    ELSE X0Approx(s, x2_t, p2, t)

\* Line 308: the posterior mean of the translation.
PosteriorMean(s, x1_t, x0, t) ==
    Add(Mul(At(s.mean_param1, t), x1_t), Mul(At(s.mean_param2, t), x0))

\* The divisors of step t (lines 321, 335, 336).
StepDivisors(s, t) ==
    {<<"alpha_bar_t_sqrt", Sqrt(At(s.alpha_bar_t, t))>>}
    \cup (IF t > 0 THEN {<<"1 - alpha_bar_t", One - At(s.alpha_bar_t, t)>>} ELSE {})

\* One iteration of the for loop of sample (lines 278-357) from the state r,
\* for the object (c, s) and the arguments a.
SampleStepFn(c, s, a, r) ==
    LET t == r.t
        shape == SampleScoreShape(c.name, r.x2_shape)
        p == ScoreModel(c.score, r.x1_t, r.x2_t, t)
        x2_shape == IF c.name = "Unet" THEN ShapeBL33 ELSE r.x2_shape
        tsrc == TransNoiseSrc(a, t)
        noise == IF tsrc = "fresh" THEN Randn(r.g)
                 ELSE IF tsrc = "override" THEN At(Val(a.trans_noise), t)
                 ELSE 0
        g1 == IF tsrc = "fresh" THEN NextRng(r.g) ELSE r.g
        d1 == IF tsrc = "fresh" THEN r.draws + 1 ELSE r.draws
        asked == [ r EXCEPT !.queried = Append(r.queried, t),
                            !.score_shape = shape, !.x2_shape = x2_shape,
                            !.p1 = p[1], !.p2 = p[2], !.xt = r.x1_t,
                            !.Rt = r.x2_t, !.trans_src = tsrc,
                            !.noise = noise, !.g = g1, !.draws = d1,
                            !.rot_src = "none", !.divs = {} ]
    IN  IF ExtractRaises(s.x0_param1, t)
        THEN [ asked EXCEPT !.pc = "raised" ]
        ELSE LET x0_raw == X0Estimate(s, r.x1_t, p[1], t)
                 x0 == Clamp(x0_raw, 0 - One, One)
                 mean == PosteriorMean(s, r.x1_t, x0, t)
                 sigma == At(s.sigma, t)
                 rsrc == RotNoiseSrc(a, t)
                 epsilon == IF rsrc = "fresh" THEN Randn(g1)
                            ELSE IF rsrc = "override" THEN At(Val(a.rot_noise), t)
                            ELSE 0
             IN  [ asked EXCEPT
                     !.pc = IF t = 0 THEN "exit" ELSE "loop",
                     !.t = t - 1,
                     !.x0_raw = x0_raw,
                     !.x0 = x0,
                     !.x1_t = Add(mean, Mul(sigma, noise)),
                     !.x2_t = RotStep(s, r.x2_t, p[2], t, epsilon),
                     !.rot_src = rsrc,
                     !.epsilon = epsilon,
                     !.g = IF rsrc = "fresh" THEN NextRng(g1) ELSE g1,
                     !.draws = IF rsrc = "fresh" THEN d1 + 1 ELSE d1,
                     !.divs = StepDivisors(s, t) ]

\* Lines 359-361: clamp, undo the translation scale, return.
SampleReturnFn(c, r) ==
    [ r EXCEPT !.pc = "done",
               !.out_rot = r.x2_t,
               !.out_trans = Div(Clamp(r.x1_t, 0 - One, One), c.trans_scale) ]

\* ------------------------------------------- forward process and loss
\* What forward_process, compute_loss and train leave behind: the operation,
\* whether it raised, the translation at each level of the call chain, and
\* the terms of the loss.
NoLoss ==
    [ op |-> "none", raised |-> FALSE, clean |-> 0, cl_x1 |-> 0, fp_x1 |-> 0,
      target |-> 0, t |-> 0, high |-> 0, x1_t |-> 0, epsilon1 |-> 0, Rt |-> 0,
      epsilon2 |-> 0, score_shape |-> <<>>, x0_1 |-> 0, loss1 |-> 0,
      loss_origin1 |-> 0, R_pred |-> 0, R_true |-> 0, theta |-> 0,
      loss2 |-> 0, total |-> 0, g |-> 0 ]

\* forward_process(x1, R0, t, trans_init) in generator state g (199-218).
\* epsilon1 is drawn before extract can raise.
forward_process(s, x1, R0, t, trans_init, g) ==
    LET epsilon1 == IF IsNone(trans_init) THEN Randn(g) ELSE Val(trans_init)
        g1 == IF IsNone(trans_init) THEN NextRng(g) ELSE g
    IN  IF ExtractRaises(s.q_param1, t)
        THEN [ NoLoss EXCEPT !.op = "forward_process", !.raised = TRUE,
                             !.fp_x1 = x1, !.t = t, !.g = g1 ]
        ELSE LET x1_t == Add(Mul(At(s.q_param1, t), x1),
                             Mul(At(s.q_param2, t), epsilon1))
                 v0 == so3_log_map(R0)
                 alpha_bar_t == At(s.alpha_bar_t, t)
                 alpha_bar_t_sqrt == Sqrt(alpha_bar_t)
                 epsilon2 == Randn(g1)
                 vt == Add(Mul(alpha_bar_t_sqrt, v0),
                           Mul(Sqrt(One - alpha_bar_t), epsilon2))
             IN  [ NoLoss EXCEPT !.op = "forward_process", !.fp_x1 = x1,
                                 !.t = t, !.x1_t = x1_t, !.epsilon1 = epsilon1,
                                 !.Rt = so3_exp_map(vt), !.epsilon2 = epsilon2,
                                 !.g = NextRng(g1) ]

\* The clean translation compute_loss hands to forward_process (line 223).
LossClean(c, x1) == Mul(x1, c.trans_scale)

\* Lines 225-253 of compute_loss, from what forward_process returned.
LossOf(c, s, x1, t, fp) ==
    IF fp.raised
    THEN [ fp EXCEPT !.op = "compute_loss", !.cl_x1 = x1 ]
    ELSE LET p == ScoreModel(c.score, fp.x1_t, fp.Rt, t)
             x0_1 == X0Estimate(s, fp.x1_t, p[1], t)
             loss1 == Abs(Sub(p[1], fp.epsilon1))
             loss_origin1 == Abs(Sub(x0_1, x1))
             R_pred == so3_exp_map(p[2])
             R_true == so3_exp_map(fp.epsilon2)
             loss2 == rotation_distance_loss(R_pred, R_true)
         IN  [ fp EXCEPT !.op = "compute_loss", !.cl_x1 = x1,
                         !.target = x1,
                         !.score_shape = LossScoreShape(c.name),
                         !.x0_1 = x0_1, !.loss1 = loss1,
                         !.loss_origin1 = loss_origin1,
                         !.R_pred = R_pred, !.R_true = R_true,
                         !.theta = rotation_distance_theta(R_pred, R_true),
                         !.loss2 = loss2,
                         !.total = Add(Add(loss1, loss_origin1), loss2) ]

\* compute_loss(x1, x2, t) in generator state g (lines 220-253).
compute_loss(c, s, x1, x2, t, g) ==
    LossOf(c, s, x1, t, forward_process(s, LossClean(c, x1), x2, t, <<>>, g))

\* torch.randint(low, high, ...) raises unless low < high.
RandintRaises(low, high) == low >= high
\* The value torch.randint(low, high) gives in generator state g: high is
\* exclusive.
Randint(low, high, g) == low + (g % (high - low))

\* The exclusive upper end of the timestep draw of train (line 388).
TrainHigh(num_timesteps) == num_timesteps - 1

\* The translation train hands to compute_loss (line 391).
TrainClean(c, translations) == Mul(translations, c.trans_scale)

\* One batch of train (lines 388-391) in generator state g.
train_batch(c, s, translations, rotations, num_timesteps, g) ==
    LET high == TrainHigh(num_timesteps)
    IN  IF RandintRaises(0, high)
        THEN [ NoLoss EXCEPT !.op = "train", !.raised = TRUE,
                             !.clean = translations, !.high = high, !.g = g ]
        ELSE LET t == Randint(0, high, g)
                 cl == compute_loss(c, s, TrainClean(c, translations),
                                    rotations, t, NextRng(g))
             IN  [ cl EXCEPT !.op = "train", !.clean = translations,
                             !.high = high ]

\* ------------------------------------------------------------- the state
\* Inputs.
Timesteps == (0 - MaxNeg)..MaxT
BetaStarts == {One \div 10}
BetaEnds == {Half, One}
TransScales == {One, 2 * One}
ModelNames == {"Unet", "MLP"}
NumSteps == 1..(MaxT + 1)
Translations == {0 - Half, One \div 4}
Rotations == {0, 3 * (One \div 10)}
OptTransInit == {<<>>, <<0 - (One + Half)>>}
OptRotInit == {<<>>, <<One>>}
OptTransNoise(n) == {<<>>, <<[i \in 1..n |-> One \div 4]>>}
OptRotNoise(n) == {<<>>, <<[i \in 1..n |-> 0 - (One \div 5)]>>}

NoSchedule ==
    [ a |-> <<>>, a_bars |-> <<>>, x0_param1 |-> <<>>, x0_param2 |-> <<>>,
      sigma |-> <<>>, mean_param1 |-> <<>>, mean_param2 |-> <<>>,
      q_param1 |-> <<>>, q_param2 |-> <<>>, beta_t |-> <<>>, alpha_t |-> <<>>,
      alpha_bar_t |-> <<>> ]

NoArgs ==
    [ num_steps |-> 0, trans_init |-> <<>>, rot_init |-> <<>>,
      trans_noise |-> <<>>, rot_noise |-> <<>> ]

\* The divisors of the schedule construction (lines 42-44, 159-167), from
\* the alphas_cumprod of line 42 and self.a_bars.
DivisorsOf(timesteps, raw, a_bars0) ==
    {<<"steps", (timesteps + 1) * One>>, <<"1 + s", One + CosS>>,
     <<"f(num_timesteps)", F(timesteps, timesteps)>>}
    \cup {<<"alphas_cumprod[0]", raw[1]>>}
    \cup {<<"alphas_cumprod[:-1]", Div(raw[i], raw[1])>> : i \in 1..timesteps}
    \cup {<<"sqrt(a_bars)", Sqrt(At(a_bars0, t))>> : t \in 1..timesteps}
    \cup {<<"1 - a_bars", One - At(a_bars0, t)>> : t \in 1..timesteps}

CtorDivisors(timesteps) ==
    DivisorsOf(timesteps, CosineCumprod(timesteps),
               Cumprod(<<One>> \o cosine_schedule(timesteps)))

VARIABLES
    status,     \* "unbuilt", "ready" (the constructor returned) or "raised"
    cfg,        \* the constructor's arguments
    sched,      \* the schedule tensors of the object
    divisors,   \* the divisors of the last operation that divided
    args,       \* the arguments of the current call of sample
    run,        \* the current call of sample and the ambient generator
    twin,       \* the same call of sample under another generator state
    loss        \* the last forward_process / compute_loss / train batch

vars == <<status, cfg, sched, divisors, args, run, twin, loss>>

Init ==
    /\ status = "unbuilt"
    /\ cfg = [ num_timesteps |-> 0, beta_start |-> 0, beta_end |-> 0,
               trans_scale |-> One, name |-> "MLP", score |-> "zero" ]
    /\ sched = NoSchedule
    /\ divisors = {}
    /\ args = NoArgs
    /\ \E g \in RngStates : run = IdleRun(g)
    /\ twin = IdleRun(0)
    /\ loss = NoLoss

\* DDPM_Diff(score_model, beta_start, beta_end, trans_scale, timesteps=...)
Construct ==
    /\ status = "unbuilt"
    /\ \E T \in Timesteps, bs \in BetaStarts, be \in BetaEnds,
          ts \in TransScales, nm \in ModelNames, sc \in ScoreKinds :
        /\ cfg' = [ num_timesteps |-> T, beta_start |-> bs, beta_end |-> be,
                    trans_scale |-> ts, name |-> nm, score |-> sc ]
        /\ IF CtorRaises(T)
           THEN /\ status' = "raised"
                /\ UNCHANGED <<sched, divisors>>
           ELSE /\ status' = "ready"
                /\ sched' = BuildSchedule(T, bs, be)
                /\ divisors' = CtorDivisors(T)
    /\ UNCHANGED <<args, run, twin, loss>>

\* No call is in progress and no result is held.
NoCall == run.pc = "idle" /\ loss.op = "none"

\* sample(shape, device, num_steps, trans_init, rot_init, trans_noise,
\* rot_noise) up to the loop.
SampleCall ==
    /\ status = "ready"
    /\ NoCall
    /\ \E n \in NumSteps, ti \in OptTransInit, ri \in OptRotInit :
       \E tn \in OptTransNoise(n), rn \in OptRotNoise(n) :
        LET a == [ num_steps |-> n, trans_init |-> ti, rot_init |-> ri,
                   trans_noise |-> tn, rot_noise |-> rn ]
        IN  /\ args' = a
            /\ run' = SampleInit(a, run.g)
            /\ twin' = SampleInit(a, NextRng(run.g))
    /\ loss' = NoLoss
    /\ UNCHANGED <<status, cfg, sched, divisors>>

\* The iteration with line 320 taking its square root in place (sqrt_ on
\* the view self.alpha_bar_t[t]): the variant of SampleStep that writes the
\* schedule.
SampleStepSqrtInPlace ==
    /\ run.pc = "loop"
    /\ run' = SampleStepFn(cfg, sched, args, run)
    /\ twin' = SampleStepFn(cfg, sched, args, twin)
    /\ divisors' = IF run'.divs = {} THEN divisors ELSE run'.divs
    /\ sched' = IF ExtractRaises(sched.alpha_bar_t, run.t)
                THEN sched
                ELSE [ sched EXCEPT !.alpha_bar_t[run.t + 1] = Sqrt(@) ]
    /\ UNCHANGED <<status, cfg, args, loss>>

\* One iteration of the loop of sample.
SampleStep ==
    /\ run.pc = "loop"
    /\ run' = SampleStepFn(cfg, sched, args, run)
    /\ twin' = SampleStepFn(cfg, sched, args, twin)
    /\ divisors' = IF run'.divs = {} THEN divisors ELSE run'.divs
    /\ UNCHANGED <<status, cfg, sched, args, loss>>

\* The return of sample.
SampleReturn ==
    /\ run.pc = "exit"
    /\ run' = SampleReturnFn(cfg, run)
    /\ twin' = SampleReturnFn(cfg, twin)
    /\ UNCHANGED <<status, cfg, sched, divisors, args, loss>>

\* A call of forward_process.
ForwardProcess ==
    /\ status = "ready"
    /\ NoCall
    /\ \E x1 \in Translations, R0 \in Rotations, t \in 0..MaxT,
          ti \in OptTransInit :
        loss' = forward_process(sched, x1, R0, t, ti, run.g)
    /\ run' = IdleRun(loss'.g)
    /\ twin' = IdleRun(0)
    /\ args' = NoArgs
    /\ UNCHANGED <<status, cfg, sched, divisors>>

\* A call of compute_loss.
ComputeLoss ==
    /\ status = "ready"
    /\ NoCall
    /\ \E x1 \in Translations, x2 \in Rotations, t \in 0..MaxT :
        loss' = compute_loss(cfg, sched, x1, x2, t, run.g)
    /\ run' = IdleRun(loss'.g)
    /\ twin' = IdleRun(0)
    /\ args' = NoArgs
    /\ UNCHANGED <<status, cfg, sched, divisors>>

\* One batch of train(data_loader, optimizer, device, num_timesteps=...).
Train ==
    /\ status = "ready"
    /\ NoCall
    /\ \E x \in Translations, R \in Rotations, n \in NumSteps :
        loss' = train_batch(cfg, sched, x, R, n, run.g)
    /\ run' = IdleRun(loss'.g)
    /\ twin' = IdleRun(0)
    /\ args' = NoArgs
    /\ UNCHANGED <<status, cfg, sched, divisors>>

\* The caller lets go of the result (or the exception) of the last call; the
\* generator keeps its state.
Discard ==
    /\ run.pc \in {"done", "raised"} \/ loss.op # "none"
    /\ run' = IdleRun(run.g)
    /\ twin' = IdleRun(0)
    /\ args' = NoArgs
    /\ loss' = NoLoss
    /\ UNCHANGED <<status, cfg, sched, divisors>>

Next ==
    \/ Construct
    \/ SampleCall
    \/ SampleStep
    \/ SampleReturn
    \/ ForwardProcess
    \/ ComputeLoss
    \/ Train
    \/ Discard

Spec == Init /\ [][Next]_vars

\* ------------------------------------------------------------ properties
\* An iteration of the loop of the current call of sample has completed.
StepDone == run.pc \in {"loop", "exit", "done"} /\ Len(run.queried) > 0
\* The timestep of the last iteration.
LastT == run.queried[Len(run.queried)]
\* The call of sample was given all four overrides.
AllOverridden ==
    /\ ~IsNone(args.trans_init)
    /\ ~IsNone(args.rot_init)
    /\ ~IsNone(args.trans_noise)
    /\ ~IsNone(args.rot_noise)
\* A call of sample without the state of the generator.
NoRng(r) == [ r EXCEPT !.g = 0, !.g0 = 0 ]

\* C1: sample walks the timesteps T-1, T-2, ..., 0 of the object, T being the
\* num_timesteps given at construction: every timestep it asks the score
\* model for lies in 0..T-1, the i-th one is T-i, no iteration raises, and a
\* call that returned has made exactly T iterations.
C1_StepsFollowObject ==
    /\ \A i \in 1..Len(run.queried) :
         /\ run.queried[i] \in 0..(cfg.num_timesteps - 1)
         /\ run.queried[i] = cfg.num_timesteps - i
    /\ run.pc # "raised"
    /\ run.pc = "done" => Len(run.queried) = cfg.num_timesteps

\* C2: in an iteration with t > 0 the translation gets sigma[t] times a noise
\* term, the slice t of trans_noise when it was supplied and a fresh draw
\* otherwise, and the rotation gets the tangent noise, the slice t of
\* rot_noise or a fresh draw; in the iteration t = 0 the translation noise is
\* zeros and the rotation is x_0_approx, the posterior step being skipped.
C2_NoiseExceptLastStep ==
    StepDone =>
        IF LastT = 0
        THEN /\ run.trans_src = "zeros"
             /\ run.noise = 0
             /\ run.x1_t = PosteriorMean(sched, run.xt, run.x0, 0)
             /\ run.rot_src = "skipped"
             /\ run.x2_t = X0Approx(sched, run.Rt, run.p2, 0)
        ELSE /\ run.trans_src =
                  (IF IsNone(args.trans_noise) THEN "fresh" ELSE "override")
             /\ run.noise \in
                  (IF IsNone(args.trans_noise)
                   THEN {Randn(g) : g \in RngStates}
                   ELSE {At(Val(args.trans_noise), LastT)})
             /\ run.x1_t = Add(PosteriorMean(sched, run.xt, run.x0, LastT),
                               Mul(At(sched.sigma, LastT), run.noise))
             /\ run.rot_src =
                  (IF IsNone(args.rot_noise) THEN "fresh" ELSE "override")
             /\ run.epsilon \in
                  (IF IsNone(args.rot_noise)
                   THEN {Randn(g) : g \in RngStates}
                   ELSE {At(Val(args.rot_noise), LastT)})
             /\ run.x2_t =
                  PosteriorRot(sched,
                               X0Approx(sched, run.Rt, run.p2, LastT),
                               run.Rt, LastT, run.epsilon)

\* C2 witness: the loop is left, after an iteration t > 0 that took the
\* slice of the supplied trans_noise and drew the rotation noise, and the
\* iteration t = 0.
C2_Witness ==
    /\ run.pc = "exit"
    /\ Len(run.queried) >= 2
    /\ LastT = 0
    /\ ~IsNone(args.trans_noise)
    /\ IsNone(args.rot_noise)
    /\ run.draws > 0
    /\ run.trans_src = "zeros"

\* C3: no division of the schedule construction or of an iteration of the
\* sampler has a zero divisor.
C3_DivisorsNonzero == \A d \in divisors : d[2] # 0

\* C4: the rotation the score model is called with is flattened to nine
\* values per residue, in the sampler as in the loss.
C4_RotationFlattened ==
    /\ run.score_shape # <<>> => Flattened(run.score_shape)
    /\ loss.score_shape # <<>> => Flattened(loss.score_shape)

\* C5: a call of sample given trans_init, rot_init, trans_noise and rot_noise
\* draws nothing from the generator, leaves its state as it found it, and
\* goes through the same values and returns the same result as the same call
\* under another generator state.
C5_OverridesDeterministic ==
    (AllOverridden /\ run.pc # "idle") =>
        /\ run.draws = 0
        /\ twin.draws = 0
        /\ run.g = run.g0
        /\ twin.g # run.g
        /\ NoRng(run) = NoRng(twin)

\* C5 witness: a call with all four overrides has returned after at least
\* two iterations, its twin under another generator state with it.
C5_Witness ==
    /\ AllOverridden
    /\ run.pc = "done"
    /\ twin.pc = "done"
    /\ Len(run.queried) >= 2
    /\ twin.g0 # run.g0
    /\ run.out_trans = twin.out_trans
    /\ run.out_rot = twin.out_rot

\* C6: once the constructor has returned, no operation writes the schedule
\* tensors or the constructor's arguments, and no step of a call of sample
\* writes the tensors the call was given.
C6_ScheduleAndInputsKept ==
    [][ /\ status = "ready" => (sched' = sched /\ cfg' = cfg)
        /\ run.pc \in {"loop", "exit"} => args' = args ]_vars

\* C6 witness: a call of sample given override tensors has returned and the
\* schedule is the one the constructor built.
C6_Witness ==
    /\ status = "ready"
    /\ run.pc = "done"
    /\ Len(run.queried) >= 2
    /\ ~IsNone(args.trans_noise)
    /\ sched = BuildSchedule(cfg.num_timesteps, cfg.beta_start, cfg.beta_end)

\* C7: a construction with num_timesteps <= 0 raises and builds no schedule;
\* an object that exists has num_timesteps >= 1.
C7_StepCountPositive ==
    /\ (status # "unbuilt" /\ cfg.num_timesteps <= 0) =>
           (status = "raised" /\ sched = NoSchedule)
    /\ status = "ready" => cfg.num_timesteps >= 1

\* C7 witness: the construction with num_timesteps = 0 has raised.
C7_Witness == status = "raised" /\ cfg.num_timesteps = 0

\* C8, as the spec states it: with the score model that returns zeros, the
\* x0 estimate of every iteration of the sampler equals x_t.
C8_ZeroStubX0IsXt ==
    (cfg.score = "zero" /\ StepDone) => run.x0_raw = run.xt

\* C8, as the code has it: with the score model that returns zeros, the x0
\* estimate of the iteration t is x0_param1[t] * x_t, clamped to [-1, 1].
C8_ZeroStubX0IsScaledXt ==
    (cfg.score = "zero" /\ StepDone) =>
        /\ run.p1 = 0
        /\ run.x0_raw = Mul(At(sched.x0_param1, LastT), run.xt)
        /\ run.x0 = Clamp(run.x0_raw, 0 - One, One)

\* C8 witness: an iteration with the zero score model whose x0 estimate is
\* not x_t.
C8_Witness ==
    /\ cfg.score = "zero"
    /\ StepDone
    /\ run.xt # 0
    /\ ~IsNaN(run.x0_raw)
    /\ run.x0_raw # run.xt

\* C9: when the predicted and the true rotation of compute_loss are the
\* same, the rotation angle and the rotation loss are zero.
C9_SelfDistanceZero ==
    (loss.op \in {"compute_loss", "train"} /\ ~loss.raised
        /\ loss.R_pred = loss.R_true) =>
        (loss.theta = 0 /\ loss.loss2 = 0)

\* C10: the translation scale is applied once on the way into the forward
\* process, whose clean input is the clean translation times trans_scale and
\* is what the x0 loss compares with, and removed once on the way out of the
\* sampler.
C10_ScaledOnce ==
    /\ (loss.op = "train" /\ ~loss.raised) =>
           /\ loss.fp_x1 = Mul(loss.clean, cfg.trans_scale)
           /\ loss.target = loss.fp_x1
    /\ run.pc = "done" =>
           run.out_trans = Div(Clamp(run.x1_t, 0 - One, One), cfg.trans_scale)

\* C11: when train is run with the step count T of the object, the timesteps
\* it can draw for compute_loss are exactly 0..T-1, the timesteps the sampler
\* asks the score model for: the draw does not raise, the drawn timestep lies
\* in 0..T-1, and every timestep of 0..T-1 is drawn in some generator state.
C11_TrainDrawsCoverSteps ==
    (loss.op = "train" /\ loss.high = TrainHigh(cfg.num_timesteps)) =>
        /\ ~loss.raised
        /\ loss.t \in 0..(cfg.num_timesteps - 1)
        /\ {Randint(0, loss.high, g) : g \in RngStates}
               = 0..(cfg.num_timesteps - 1)
====
